---------------------------- MODULE BoardProofs -----------------------------
(***************************************************************************)
(* Proofs about the IOMMU, for every page table, set of requests and       *)
(* length of list; about the bargraph driver; and about the time of day.   *)
(***************************************************************************)
EXTENDS Board, Iommu, SequenceTheorems, TLAPS

(* Values of the IOMMU's state. *)
Entries == Pages \cup {Invalid}

IommuTypeOK ==
    /\ page_table \in [Slots -> Entries]
    /\ memory \in [Slots -> Entries]
    /\ tlb \in [Slots -> Entries]
    /\ addr \in [Reqs -> Seq(Pages)]
    /\ dvma_addr \in [Reqs -> Seq(IoSlots)]
    /\ doing \in {Nobody} \cup ({"area", "flushed"} \X Reqs)
    /\ dma \in {"before", "mapped"}

(* A request has a slot for each of its pages, except in the middle of its *)
(* get_scsi, when it has them for the last pages.                          *)
SlotsGiven ==
    \A r \in Reqs :
        /\ Len(dvma_addr[r]) <= Len(addr[r])
        /\ Len(dvma_addr[r]) = Len(addr[r]) \/ doing = <<"area", r>>

(* The k-th slot of r has the page it was given for. *)
PageOf(r, k) == addr[r][Len(addr[r]) - Len(dvma_addr[r]) + k]
SlotsHold ==
    \A r \in Reqs : \A k \in 1 .. Len(dvma_addr[r]) :
        page_table[dvma_addr[r][k]] = PageOf(r, k)

(* No slot is given twice. *)
SlotsDiffer ==
    \A r, q \in Reqs : \A k \in 1 .. Len(dvma_addr[r]), j \in 1 .. Len(dvma_addr[q]) :
        dvma_addr[r][k] = dvma_addr[q][j] => r = q /\ k = j

(* A slot that is in use belongs to a request. *)
NoSlotLost ==
    \A s \in IoSlots : page_table[s] # Invalid =>
        \E r \in Reqs : \E k \in 1 .. Len(dvma_addr[r]) : dvma_addr[r][k] = s

(* What a mapped request uses is in memory, and nothing else in the TLB.   *)
CopiesAgree(s) == memory[s] = page_table[s] /\ tlb[s] \in {Invalid, page_table[s]}
MappedAgree ==
    /\ \A r \in Mapped : \A k \in 1 .. Len(dvma_addr[r]) : CopiesAgree(dvma_addr[r][k])
    /\ dma = "mapped" => \A s \in DmaSlots : CopiesAgree(s)

(* Between the flush and the invalidation memory has the page table. *)
FlushedAgrees == \A r \in Reqs : doing = <<"flushed", r>> => memory = page_table

IommuInv ==
    /\ IommuTypeOK /\ SlotsGiven /\ SlotsHold /\ SlotsDiffer /\ NoSlotLost
    /\ MappedAgree /\ FlushedAgrees

(* Nothing is mapped at first, and all copies are Invalid. *)
LEMMA IommuInitInv == IommuInit => IommuInv
BY DEF IommuInit, IommuInv, IommuTypeOK, SlotsGiven, SlotsHold, SlotsDiffer, NoSlotLost,
       MappedAgree, Mapped, FlushedAgrees, Entries, Slots, Nobody, CopiesAgree

(* What get_area makes of the list of slots of a request. *)
LEMMA Prepended ==
    ASSUME NEW q \in Seq(IoSlots), NEW s \in IoSlots
    PROVE  /\ <<s>> \o q \in Seq(IoSlots)
           /\ Len(<<s>> \o q) = Len(q) + 1
           /\ (<<s>> \o q)[1] = s
           /\ \A k \in 2 .. Len(q) + 1 : (<<s>> \o q)[k] = q[k - 1]
OBVIOUS

(* Where PageOf looks is within the list of pages. *)
LEMMA Offset ==
    ASSUME NEW m \in Nat, NEW n \in Nat, n <= m, NEW k \in 1 .. n
    PROVE  m - n + k \in 1 .. m
OBVIOUS

(* get_area has a page left to give a slot to. *)
LEMMA Difference ==
    ASSUME NEW m \in Nat, NEW n \in Nat, n < m
    PROVE  m - n \in 1 .. m
OBVIOUS

(* A slot with a page is not Free, so get_area gives nobody's slot away. *)
LEMMA FreeIsNobodys ==
    ASSUME IommuInv, NEW s \in IoSlots, Free(s), NEW r \in Reqs,
           NEW k \in 1 .. Len(dvma_addr[r])
    PROVE  dvma_addr[r][k] # s
<1>1. /\ addr[r] \in Seq(Pages) /\ dvma_addr[r] \in Seq(IoSlots)
      /\ Len(dvma_addr[r]) <= Len(addr[r])
  BY DEF IommuInv, IommuTypeOK, SlotsGiven
<1>a. Len(addr[r]) \in Nat /\ Len(dvma_addr[r]) \in Nat
  BY <1>1, LenProperties
<1>2. Len(addr[r]) - Len(dvma_addr[r]) + k \in 1 .. Len(addr[r])
  BY <1>1, <1>a, Offset
<1>3. PageOf(r, k) \in Pages
  BY <1>1, <1>2 DEF PageOf
<1>4. page_table[dvma_addr[r][k]] = PageOf(r, k)
  BY DEF IommuInv, SlotsHold
<1> QED
  BY <1>3, <1>4, IommuAssumption DEF Free

(* The steps that leave the slots of all requests, and their entries in    *)
(* the page table, alone: what is to show is about the other copies.       *)
LEMMA SlotsKept ==
    ASSUME IommuInv, UNCHANGED <<addr, dvma_addr>>,
           \A s \in IoSlots : page_table'[s] = page_table[s],
           \A r \in Reqs : doing = <<"area", r>> =>
                doing' = <<"area", r>> \/ Len(dvma_addr[r]) = Len(addr[r])
    PROVE  SlotsGiven' /\ SlotsHold' /\ SlotsDiffer' /\ NoSlotLost'
<1>1. SlotsGiven'
  BY DEF IommuInv, SlotsGiven
<1>2. SlotsHold'
  BY DEF IommuInv, IommuTypeOK, SlotsHold, PageOf
<1>3. SlotsDiffer'
  BY DEF IommuInv, SlotsDiffer
<1>4. NoSlotLost'
  BY DEF IommuInv, NoSlotLost
<1> QED
  BY <1>1, <1>2, <1>3, <1>4

(* A request that begins has no slots yet, and is not Mapped. *)
LEMMA GetScsiStep ==
    ASSUME IommuInv, NEW r \in Reqs, NEW n \in 1 .. MaxSg, NEW pages \in [1 .. n -> Pages],
           get_scsi(r, pages)
    PROVE  IommuInv'
<1> USE DEF IommuInv
<1>1. /\ doing = Nobody /\ doing' = <<"area", r>> /\ addr[r] = <<>>
      /\ addr' = [addr EXCEPT ![r] = pages]
      /\ UNCHANGED <<page_table, memory, tlb, dvma_addr, dma>>
  BY DEF get_scsi
<1>2. pages \in Seq(Pages) /\ Len(pages) = n /\ n \in Nat
  BY IommuAssumption
<1>3. Len(dvma_addr[r]) = 0
  BY <1>1 DEF SlotsGiven, IommuTypeOK, Nobody
<1>4. IommuTypeOK'
  BY <1>1, <1>2 DEF IommuTypeOK
<1>5. SlotsGiven'
  BY <1>1, <1>2, <1>3 DEF SlotsGiven, IommuTypeOK, Nobody
<1>6. SlotsHold'
  BY <1>1, <1>3 DEF SlotsHold, PageOf, IommuTypeOK
<1>7. SlotsDiffer' /\ NoSlotLost'
  BY <1>1 DEF SlotsDiffer, NoSlotLost
<1>8. MappedAgree'
  <2>1. \A q \in Mapped' : q \in Mapped
    BY <1>1 DEF Mapped, IommuTypeOK, Nobody
  <2> QED
    BY <1>1, <2>1 DEF MappedAgree, CopiesAgree
<1>9. FlushedAgrees'
  BY <1>1 DEF FlushedAgrees
<1> QED
  BY <1>4, <1>5, <1>6, <1>7, <1>8, <1>9

(* get_area: the slot was free, so nobody had it; it now has the last page *)
(* without one.  Or the ASSERT stops the kernel.                           *)
LEMMA GetAreaStep ==
    ASSUME IommuInv, NEW r \in Reqs, get_area(r)
    PROVE  IommuInv'
<1> USE DEF IommuInv
<1> DEFINE n == Len(dvma_addr[r])
           last == Len(addr[r]) - n
<1>1. doing = <<"area", r>> /\ n < Len(addr[r]) /\ UNCHANGED <<memory, tlb, addr, doing, dma>>
  BY DEF get_area
<1>2. /\ addr[r] \in Seq(Pages) /\ dvma_addr[r] \in Seq(IoSlots)
      /\ n \in Nat /\ Len(addr[r]) \in Nat
  BY LenProperties DEF IommuTypeOK
<1>3. CASE UNCHANGED <<page_table, dvma_addr>>
  <2>1. SlotsGiven' /\ SlotsHold' /\ SlotsDiffer' /\ NoSlotLost'
    BY <1>1, <1>3, SlotsKept
  <2>2. IommuTypeOK' /\ MappedAgree' /\ FlushedAgrees'
    BY <1>1, <1>3 DEF IommuTypeOK, MappedAgree, Mapped, CopiesAgree, FlushedAgrees
  <2> QED
    BY <2>1, <2>2
<1>4. ASSUME NEW s \in IoSlots, Free(s),
             page_table' = [page_table EXCEPT ![s] = addr[r][last]],
             dvma_addr' = [dvma_addr EXCEPT ![r] = <<s>> \o @]
      PROVE  IommuInv'
  <2>1. \A q \in Reqs : \A k \in 1 .. Len(dvma_addr[q]) : dvma_addr[q][k] # s
    BY <1>4, FreeIsNobodys
  <2>2. /\ dvma_addr'[r] \in Seq(IoSlots) /\ Len(dvma_addr'[r]) = n + 1
        /\ dvma_addr'[r][1] = s
        /\ \A k \in 2 .. n + 1 : dvma_addr'[r][k] = dvma_addr[r][k - 1]
    BY <1>2, <1>4, Prepended DEF IommuTypeOK
  <2>3. \A q \in Reqs \ {r} : dvma_addr'[q] = dvma_addr[q]
    BY <1>4 DEF IommuTypeOK
  <2>4. last \in 1 .. Len(addr[r]) /\ addr[r][last] \in Pages
    <3>1. last \in 1 .. Len(addr[r])
      BY <1>1, <1>2, Difference
    <3> QED
      BY <1>2, <3>1, ElementOfSeq
  <2>5. page_table'[s] = addr[r][last] /\ \A x \in Slots \ {s} : page_table'[x] = page_table[x]
    BY <1>4 DEF IommuTypeOK, Slots
  <2>6. IommuTypeOK'
    <3>1. page_table' \in [Slots -> Entries]
      BY <1>4, <2>4 DEF IommuTypeOK, Entries
    <3>2. dvma_addr' \in [Reqs -> Seq(IoSlots)]
      BY <1>4, <2>2 DEF IommuTypeOK
    <3> QED
      BY <1>1, <3>1, <3>2 DEF IommuTypeOK
  <2>7. SlotsGiven'
    BY <1>1, <1>2, <2>2, <2>3 DEF SlotsGiven
  <2>8. SlotsHold'
    <3> SUFFICES ASSUME NEW q \in Reqs, NEW k \in 1 .. Len(dvma_addr'[q])
                 PROVE  page_table'[dvma_addr'[q][k]] =
                            addr[q][Len(addr[q]) - Len(dvma_addr'[q]) + k]
      BY <1>1 DEF SlotsHold, PageOf
    <3>1. CASE q # r
      <4>a. dvma_addr'[q] = dvma_addr[q] /\ k \in 1 .. Len(dvma_addr[q])
        BY <2>3, <3>1
      <4>b. dvma_addr[q] \in Seq(IoSlots)
        BY DEF IommuTypeOK
      <4>1. dvma_addr'[q] = dvma_addr[q] /\ dvma_addr[q][k] \in IoSlots /\ dvma_addr[q][k] # s
        BY <2>1, <4>a, <4>b
      <4> QED
        BY <2>5, <4>a, <4>1 DEF SlotsHold, PageOf, Slots
    <3>2. CASE q = r /\ k = 1
      <4>1. Len(addr[r]) - (n + 1) + 1 = last
        BY <1>2
      <4> QED
        BY <2>2, <2>5, <3>2, <4>1
    <3>3. CASE q = r /\ k # 1
      <4>1. k \in 2 .. n + 1 /\ k - 1 \in 1 .. n
        BY <1>2, <2>2, <3>3
      <4>2. dvma_addr'[r][k] = dvma_addr[r][k - 1] /\ dvma_addr[r][k - 1] \in IoSlots
            /\ dvma_addr[r][k - 1] # s
        BY <1>2, <2>1, <2>2, <4>1
      <4>3. page_table[dvma_addr[r][k - 1]] = addr[r][Len(addr[r]) - n + (k - 1)]
        BY <4>1 DEF SlotsHold, PageOf
      <4>4. Len(addr[r]) - n + (k - 1) = Len(addr[r]) - (n + 1) + k
        BY <1>2, <4>1
      <4> QED
        BY <2>2, <2>5, <3>3, <4>2, <4>3, <4>4 DEF Slots
    <3> QED
      BY <3>1, <3>2, <3>3
  <2>9. SlotsDiffer'
    <3> SUFFICES ASSUME NEW p \in Reqs, NEW q \in Reqs,
                        NEW k \in 1 .. Len(dvma_addr'[p]), NEW j \in 1 .. Len(dvma_addr'[q]),
                        dvma_addr'[p][k] = dvma_addr'[q][j]
                 PROVE  p = q /\ k = j
      BY DEF SlotsDiffer
    <3> DEFINE Old(x, i) == IF x = r THEN i - 1 ELSE i
    <3>1. ASSUME NEW x \in Reqs, NEW i \in 1 .. Len(dvma_addr'[x])
          PROVE  \/ x = r /\ i = 1 /\ dvma_addr'[x][i] = s
                 \/ /\ x # r \/ i # 1
                    /\ Old(x, i) \in 1 .. Len(dvma_addr[x])
                    /\ dvma_addr'[x][i] = dvma_addr[x][Old(x, i)]
      <4>1. CASE x = r /\ i = 1
        BY <2>2, <4>1
      <4>2. CASE x = r /\ i # 1
        <5>1. i \in 2 .. n + 1 /\ i - 1 \in 1 .. n
          BY <1>2, <2>2, <3>1, <4>2
        <5> QED
          BY <2>2, <4>2, <5>1
      <4>3. CASE x # r
        BY <2>3, <3>1, <4>3
      <4> QED
        BY <4>1, <4>2, <4>3
    <3> HIDE DEF Old
    <3>a. \A x \in Reqs : \A i \in 1 .. Len(dvma_addr'[x]) :
            dvma_addr'[x][i] = s => x = r /\ i = 1
      <4> SUFFICES ASSUME NEW x \in Reqs, NEW i \in 1 .. Len(dvma_addr'[x]),
                          ~(x = r /\ i = 1)
                   PROVE  dvma_addr'[x][i] # s
        OBVIOUS
      <4>1. Old(x, i) \in 1 .. Len(dvma_addr[x]) /\ dvma_addr'[x][i] = dvma_addr[x][Old(x, i)]
        BY <3>1
      <4>2. dvma_addr[x][Old(x, i)] # s
        BY <2>1, <4>1
      <4> QED
        BY <4>1, <4>2
    <3>2. CASE (p = r /\ k = 1) \/ (q = r /\ j = 1)
      BY <2>2, <3>a, <3>2
    <3>3. CASE ~((p = r /\ k = 1) \/ (q = r /\ j = 1))
      <4>1. Old(p, k) \in 1 .. Len(dvma_addr[p]) /\ dvma_addr'[p][k] = dvma_addr[p][Old(p, k)]
        BY <3>1, <3>3
      <4>2. Old(q, j) \in 1 .. Len(dvma_addr[q]) /\ dvma_addr'[q][j] = dvma_addr[q][Old(q, j)]
        BY <3>1, <3>3
      <4>a. dvma_addr[p][Old(p, k)] = dvma_addr[q][Old(q, j)]
        BY <4>1, <4>2
      <4>b. \A a \in 1 .. Len(dvma_addr[p]), b \in 1 .. Len(dvma_addr[q]) :
               dvma_addr[p][a] = dvma_addr[q][b] => p = q /\ a = b
        BY DEF SlotsDiffer
      <4>3. p = q /\ Old(p, k) = Old(q, j)
        BY <4>1, <4>2, <4>a, <4>b
      <4>4. k \in Int /\ j \in Int
        OBVIOUS
      <4> QED
        BY <4>3, <4>4 DEF Old
    <3> QED
      BY <3>2, <3>3
  <2>10. NoSlotLost'
    <3> SUFFICES ASSUME NEW x \in IoSlots, page_table'[x] # Invalid
                 PROVE  \E q \in Reqs : \E k \in 1 .. Len(dvma_addr'[q]) : dvma_addr'[q][k] = x
      BY DEF NoSlotLost
    <3>1. CASE x = s
      <4>1. 1 \in 1 .. Len(dvma_addr'[r])
        BY <1>2, <2>2
      <4> QED
        BY <2>2, <3>1, <4>1
    <3>2. CASE x # s
      <4>1. PICK q \in Reqs : \E k \in 1 .. Len(dvma_addr[q]) : dvma_addr[q][k] = x
        BY <2>5, <3>2 DEF NoSlotLost, Slots
      <4>2. PICK k \in 1 .. Len(dvma_addr[q]) : dvma_addr[q][k] = x
        BY <4>1
      <4>3. CASE q = r
        <5>1. k + 1 \in 2 .. n + 1 /\ k + 1 - 1 = k /\ k + 1 \in 1 .. n + 1
          BY <1>2, <4>3
        <5>2. dvma_addr'[r][k + 1] = x
          BY <2>2, <4>2, <4>3, <5>1
        <5> QED
          BY <2>2, <5>1, <5>2
      <4>4. CASE q # r
        BY <2>3, <4>2, <4>4
      <4> QED
        BY <4>3, <4>4
    <3> QED
      BY <3>1, <3>2
  <2>11. MappedAgree'
    <3>1. Mapped' = Mapped /\ r \notin Mapped
      BY <1>1 DEF Mapped
    <3>2. \A q \in Mapped : \A k \in 1 .. Len(dvma_addr[q]) :
            dvma_addr'[q] = dvma_addr[q] /\ page_table'[dvma_addr[q][k]] = page_table[dvma_addr[q][k]]
      BY <2>1, <2>3, <2>5, <3>1 DEF Mapped, Slots, IommuTypeOK
    <3>3. \A x \in DmaSlots : page_table'[x] = page_table[x]
      BY <2>5, IommuAssumption DEF Slots
    <3>4. \A q \in Mapped : \A k \in 1 .. Len(dvma_addr'[q]) : CopiesAgree(dvma_addr[q][k])'
      <4>1. \A q \in Mapped : dvma_addr'[q] = dvma_addr[q]
        BY <2>3, <3>1 DEF Mapped
      <4> QED
        BY <1>1, <3>2, <4>1 DEF MappedAgree, CopiesAgree
    <3>5. dma = "mapped" => \A x \in DmaSlots : CopiesAgree(x)'
      BY <1>1, <3>3 DEF MappedAgree, CopiesAgree
    <3> QED
      BY <1>1, <3>1, <3>4, <3>5 DEF MappedAgree
  <2>12. FlushedAgrees'
    BY <1>1 DEF FlushedAgrees
  <2> QED
    BY <2>6, <2>7, <2>8, <2>9, <2>10, <2>11, <2>12
<1> QED
  BY <1>3, <1>4 DEF get_area

(* get_scsi_flush: afterwards memory has the page table. *)
LEMMA FlushStep ==
    ASSUME IommuInv, NEW r \in Reqs, get_scsi_flush(r)
    PROVE  IommuInv'
<1> USE DEF IommuInv
<1>1. /\ doing = <<"area", r>> /\ Len(dvma_addr[r]) = Len(addr[r])
      /\ memory' = page_table /\ doing' = <<"flushed", r>>
      /\ UNCHANGED <<page_table, tlb, addr, dvma_addr, dma>>
  BY DEF get_scsi_flush, flush_cache_all
<1>2. SlotsGiven' /\ SlotsHold' /\ SlotsDiffer' /\ NoSlotLost'
  BY <1>1, SlotsKept
<1>3. IommuTypeOK'
  BY <1>1 DEF IommuTypeOK
<1>4. MappedAgree' /\ FlushedAgrees'
  BY <1>1 DEF MappedAgree, Mapped, CopiesAgree, FlushedAgrees
<1> QED
  BY <1>2, <1>3, <1>4

(* The invalidation completes a mapping: memory has the page table since   *)
(* the flush, and the TLB is empty.                                        *)
LEMMA DoneStep ==
    ASSUME IommuInv, NEW r \in Reqs, get_scsi_done(r)
    PROVE  IommuInv'
<1> USE DEF IommuInv
<1>1. /\ doing = <<"flushed", r>> /\ doing' = Nobody
      /\ tlb' = [s \in Slots |-> Invalid]
      /\ UNCHANGED <<page_table, memory, addr, dvma_addr, dma>>
  BY DEF get_scsi_done, iommu40_invalidate
<1>2. SlotsGiven' /\ SlotsHold' /\ SlotsDiffer' /\ NoSlotLost'
  BY <1>1, SlotsKept
<1>3. IommuTypeOK'
  BY <1>1 DEF IommuTypeOK, Entries
<1>4. memory' = page_table' /\ \A s \in Slots : tlb'[s] = Invalid
  BY <1>1 DEF FlushedAgrees
<1>5. MappedAgree'
  <2>1. \A q \in Reqs : \A k \in 1 .. Len(dvma_addr'[q]) : dvma_addr'[q][k] \in Slots
    BY <1>1 DEF IommuTypeOK, Slots
  <2> QED
    BY <1>4, <2>1 DEF MappedAgree, Mapped, CopiesAgree, Slots
<1>6. FlushedAgrees'
  BY <1>4 DEF FlushedAgrees
<1> QED
  BY <1>2, <1>3, <1>5, <1>6

(* Only the slots of r itself change, and nobody else has those. *)
LEMMA ReleaseStep ==
    ASSUME IommuInv, NEW r \in Reqs, release_scsi(r)
    PROVE  IommuInv'
<1> USE DEF IommuInv
<1>1. /\ doing = Nobody /\ r \in Mapped
      /\ page_table' = [s \in Slots |->
                           IF s \in Range(dvma_addr[r]) THEN Invalid ELSE page_table[s]]
      /\ addr' = [addr EXCEPT ![r] = <<>>] /\ dvma_addr' = [dvma_addr EXCEPT ![r] = <<>>]
      /\ UNCHANGED <<memory, tlb, doing, dma>>
  BY DEF release_scsi
<1>2. /\ dvma_addr'[r] = <<>> /\ addr'[r] = <<>>
      /\ \A q \in Reqs \ {r} : dvma_addr'[q] = dvma_addr[q] /\ addr'[q] = addr[q]
  BY <1>1 DEF IommuTypeOK
<1>3. \A q \in Reqs \ {r} : \A k \in 1 .. Len(dvma_addr[q]) :
          /\ dvma_addr[q][k] \in IoSlots
          /\ page_table'[dvma_addr[q][k]] = page_table[dvma_addr[q][k]]
  <2> SUFFICES ASSUME NEW q \in Reqs \ {r}, NEW k \in 1 .. Len(dvma_addr[q])
               PROVE  /\ dvma_addr[q][k] \in IoSlots
                      /\ page_table'[dvma_addr[q][k]] = page_table[dvma_addr[q][k]]
    OBVIOUS
  <2>1. dvma_addr[q][k] \in IoSlots /\ dvma_addr[r] \in Seq(IoSlots)
    BY DEF IommuTypeOK
  <2>2. dvma_addr[q][k] \notin Range(dvma_addr[r])
    <3>1. \A j \in 1 .. Len(dvma_addr[r]) : dvma_addr[r][j] # dvma_addr[q][k]
      BY DEF SlotsDiffer
    <3> QED
      BY <2>1, <3>1 DEF Range
  <2> QED
    BY <1>1, <2>1, <2>2 DEF Slots
<1>4. \A s \in DmaSlots : page_table'[s] = page_table[s]
  <2>1. \A s \in Range(dvma_addr[r]) : s \in IoSlots
    BY DEF IommuTypeOK, Range
  <2> QED
    BY <1>1, <2>1, IommuAssumption DEF Slots
<1>5. IommuTypeOK'
  <2>1. page_table' \in [Slots -> Entries]
    BY <1>1 DEF IommuTypeOK, Entries
  <2>2. addr' \in [Reqs -> Seq(Pages)] /\ dvma_addr' \in [Reqs -> Seq(IoSlots)]
    BY <1>1 DEF IommuTypeOK
  <2> QED
    BY <1>1, <2>1, <2>2 DEF IommuTypeOK
<1>6. SlotsGiven'
  BY <1>1, <1>2 DEF SlotsGiven, Nobody
<1>7. SlotsHold'
  <2> SUFFICES ASSUME NEW q \in Reqs, NEW k \in 1 .. Len(dvma_addr'[q])
               PROVE  page_table'[dvma_addr'[q][k]] = PageOf(q, k)'
    BY DEF SlotsHold
  <2>1. q # r
    BY <1>2
  <2>2. dvma_addr'[q] = dvma_addr[q] /\ addr'[q] = addr[q]
    BY <1>2, <2>1
  <2>3. page_table'[dvma_addr[q][k]] = page_table[dvma_addr[q][k]]
    BY <1>3, <2>1, <2>2
  <2>4. page_table[dvma_addr[q][k]] = PageOf(q, k)
    BY <2>2 DEF SlotsHold
  <2> QED
    BY <2>2, <2>3, <2>4 DEF PageOf
<1>8. SlotsDiffer'
  BY <1>2 DEF SlotsDiffer
<1>9. NoSlotLost'
  <2> SUFFICES ASSUME NEW s \in IoSlots, page_table'[s] # Invalid
               PROVE  \E q \in Reqs : \E k \in 1 .. Len(dvma_addr'[q]) : dvma_addr'[q][k] = s
    BY DEF NoSlotLost
  <2>1. s \notin Range(dvma_addr[r]) /\ page_table[s] # Invalid
    BY <1>1 DEF Slots
  <2>2. PICK q \in Reqs : \E k \in 1 .. Len(dvma_addr[q]) : dvma_addr[q][k] = s
    BY <2>1 DEF NoSlotLost
  <2>3. q # r
    BY <2>1, <2>2 DEF Range, IommuTypeOK
  <2> QED
    BY <1>2, <2>2, <2>3
<1>10. MappedAgree'
  <2>1. \A q \in Mapped' : q \in Mapped /\ q \in Reqs \ {r}
    BY <1>1, <1>2 DEF Mapped
  <2>2. \A q \in Mapped' : \A k \in 1 .. Len(dvma_addr'[q]) : CopiesAgree(dvma_addr[q][k])'
    BY <1>1, <1>2, <1>3, <2>1 DEF MappedAgree, CopiesAgree
  <2>3. dma' = "mapped" => \A s \in DmaSlots : CopiesAgree(s)'
    BY <1>1, <1>4 DEF MappedAgree, CopiesAgree
  <2> QED
    BY <2>2, <2>3 DEF MappedAgree
<1>11. FlushedAgrees'
  BY <1>1 DEF FlushedAgrees, Nobody
<1> QED
  BY <1>5, <1>6, <1>7, <1>8, <1>9, <1>10, <1>11

(* map_dma_area: its entries are not those of a request; the last step     *)
(* flushes the cache and invalidates the TLB.                              *)
LEMMA DmaAreaStep ==
    ASSUME IommuInv, map_dma_area
    PROVE  IommuInv'
<1> USE DEF IommuInv
<1>1. dma = "before" /\ doing = Nobody /\ UNCHANGED <<addr, dvma_addr, doing>>
  BY DEF map_dma_area
<1>2. ASSUME NEW s \in DmaSlots, NEW p \in Pages,
             page_table' = [page_table EXCEPT ![s] = p], UNCHANGED <<memory, tlb, dma>>
      PROVE  IommuInv'
  <2>1. \A x \in IoSlots : page_table'[x] = page_table[x]
    BY <1>2, IommuAssumption DEF IommuTypeOK, Slots
  <2>2. SlotsGiven' /\ SlotsHold' /\ SlotsDiffer' /\ NoSlotLost'
    BY <1>1, <2>1, SlotsKept DEF Nobody
  <2>3. IommuTypeOK'
    BY <1>1, <1>2 DEF IommuTypeOK, Entries
  <2>4. MappedAgree'
    <3>1. \A q \in Mapped : \A k \in 1 .. Len(dvma_addr[q]) : dvma_addr[q][k] \in IoSlots
      BY DEF Mapped, IommuTypeOK
    <3> QED
      BY <1>1, <1>2, <2>1, <3>1 DEF MappedAgree, Mapped, CopiesAgree
  <2>5. FlushedAgrees'
    BY <1>1 DEF FlushedAgrees, Nobody
  <2> QED
    BY <2>2, <2>3, <2>4, <2>5
<1>3. CASE /\ memory' = page_table /\ tlb' = [s \in Slots |-> Invalid]
           /\ dma' = "mapped" /\ UNCHANGED page_table
  <2>1. SlotsGiven' /\ SlotsHold' /\ SlotsDiffer' /\ NoSlotLost'
    BY <1>1, <1>3, SlotsKept DEF Nobody
  <2>2. IommuTypeOK'
    BY <1>1, <1>3 DEF IommuTypeOK, Entries
  <2>3. \A q \in Reqs : \A k \in 1 .. Len(dvma_addr[q]) : dvma_addr[q][k] \in Slots
    BY DEF IommuTypeOK, Slots
  <2>4. MappedAgree' /\ FlushedAgrees'
    BY <1>1, <1>3, <2>3 DEF MappedAgree, Mapped, CopiesAgree, FlushedAgrees, Slots
  <2> QED
    BY <2>1, <2>2, <2>4
<1> QED
  BY <1>2, <1>3 DEF map_dma_area, iommu40_invalidate

(* The hardware copies entries: from the cache to memory, from memory to   *)
(* the TLB.  Where the copies agree that changes nothing.                  *)
LEMMA HardwareStep ==
    ASSUME IommuInv, NEW s \in Slots, WriteBack(s) \/ TlbLoad(s)
    PROVE  IommuInv'
<1> USE DEF IommuInv
<1>1. UNCHANGED <<page_table, addr, dvma_addr, doing, dma>>
  BY DEF WriteBack, TlbLoad
<1>2. SlotsGiven' /\ SlotsHold' /\ SlotsDiffer' /\ NoSlotLost'
  BY <1>1, SlotsKept
<1>3. IommuTypeOK'
  BY <1>1 DEF IommuTypeOK, WriteBack, TlbLoad
<1>4. \A x \in Slots : CopiesAgree(x) => CopiesAgree(x)'
  BY <1>1 DEF CopiesAgree, WriteBack, TlbLoad, IommuTypeOK
<1>5. MappedAgree'
  <2>1. \A q \in Mapped : \A k \in 1 .. Len(dvma_addr[q]) : dvma_addr[q][k] \in Slots
    BY DEF Mapped, IommuTypeOK, Slots
  <2>2. \A q \in Mapped : \A k \in 1 .. Len(dvma_addr[q]) : CopiesAgree(dvma_addr[q][k])'
    BY <1>1, <1>4, <2>1 DEF MappedAgree, CopiesAgree
  <2> QED
    BY <1>1, <1>4, <2>2 DEF MappedAgree, Mapped, Slots
<1>6. FlushedAgrees'
  BY <1>1 DEF FlushedAgrees, WriteBack, TlbLoad
<1> QED
  BY <1>2, <1>3, <1>5, <1>6

(* The invariant is inductive: one case for each action. *)
LEMMA IommuStep == IommuInv /\ [IommuNext]_iommuVars => IommuInv'
<1> SUFFICES ASSUME IommuInv, [IommuNext]_iommuVars
             PROVE  IommuInv'
  OBVIOUS
<1>1. CASE UNCHANGED iommuVars
  BY <1>1 DEF IommuInv, IommuTypeOK, SlotsGiven, SlotsHold, PageOf, SlotsDiffer, NoSlotLost,
              MappedAgree, Mapped, CopiesAgree, FlushedAgrees, iommuVars
<1>2. CASE IommuNext
  BY <1>2, GetScsiStep, GetAreaStep, FlushStep, DoneStep, ReleaseStep, DmaAreaStep,
     HardwareStep DEF IommuNext
<1> QED
  BY <1>1, <1>2

(* A device that uses an address it was given reaches the page the address *)
(* stands for (get_scsi_one, get_scsi_sgl, map_dma_area), however many     *)
(* entries, requests and pages there are.                                  *)
THEOREM Translates == IommuSpec => []MappingTranslates
<1>1. ASSUME IommuInv
      PROVE  MappingTranslates
  <2> USE <1>1 DEF IommuInv
  <2>1. ASSUME NEW r \in Mapped, NEW i \in DOMAIN addr[r]
        PROVE  /\ memory[dvma_addr[r][i]] = addr[r][i]
               /\ tlb[dvma_addr[r][i]] \in {Invalid, addr[r][i]}
    <3>1. r \in Reqs /\ addr[r] \in Seq(Pages) /\ dvma_addr[r] \in Seq(IoSlots)
      BY DEF Mapped, IommuTypeOK
    <3>2. Len(dvma_addr[r]) = Len(addr[r]) /\ Len(addr[r]) \in Nat
      BY <3>1, LenProperties DEF Mapped, SlotsGiven
    <3>3. i \in 1 .. Len(dvma_addr[r])
      BY <3>1, <3>2
    <3>4. Len(addr[r]) - Len(dvma_addr[r]) + i = i
      BY <3>2, <3>3
    <3>5. page_table[dvma_addr[r][i]] = addr[r][i]
      BY <3>1, <3>3, <3>4 DEF SlotsHold, PageOf
    <3>6. CopiesAgree(dvma_addr[r][i])
      BY <3>3 DEF MappedAgree
    <3> QED
      BY <3>5, <3>6 DEF CopiesAgree
  <2>2. dma = "mapped" => \A s \in DmaSlots : CopiesAgree(s)
    BY DEF MappedAgree
  <2> QED
    BY <2>1, <2>2 DEF MappingTranslates, CopiesAgree
<1> QED
  BY <1>1, IommuInitInv, IommuStep, PTL DEF IommuSpec

(* What release_scsi left in memory and in the TLB is gone when the next   *)
(* request is mapped: the page table has nothing but what is owned, and    *)
(* get_scsi has flushed all of it.                                         *)
THEOREM ReachEnds == IommuSpec => ReachEndsWithNextGet
<1>1. ASSUME IommuInv, [IommuNext]_iommuVars, NEW r \in Reqs,
             doing = <<"flushed", r>>, doing' = Nobody, NEW s \in Slots \ Owned'
      PROVE  memory'[s] = Invalid /\ tlb'[s] = Invalid
  <2> USE <1>1 DEF IommuInv
  <2>1. get_scsi_done(r)
    BY DEF IommuNext, iommuVars, get_scsi, get_area, get_scsi_flush, get_scsi_done,
           release_scsi, map_dma_area, WriteBack, TlbLoad, Nobody
  <2>2. /\ tlb' = [x \in Slots |-> Invalid]
        /\ UNCHANGED <<page_table, memory, addr, dvma_addr>>
    BY <2>1 DEF get_scsi_done, iommu40_invalidate
  <2>3. memory = page_table /\ s \in IoSlots
    BY DEF FlushedAgrees, Owned, Slots
  <2>4. page_table[s] = Invalid
    <3> SUFFICES ASSUME page_table[s] # Invalid
                 PROVE  FALSE
      OBVIOUS
    <3>1. PICK q \in Reqs : \E k \in 1 .. Len(dvma_addr[q]) : dvma_addr[q][k] = s
      BY <2>3 DEF NoSlotLost
    <3>2. PICK k \in 1 .. Len(dvma_addr[q]) : dvma_addr[q][k] = s
      BY <3>1
    <3>3. dvma_addr[q] \in Seq(IoSlots) /\ addr[q] \in Seq(Pages)
      BY DEF IommuTypeOK
    <3>4. addr[q] # <<>>
      <4>1. Len(dvma_addr[q]) <= Len(addr[q]) /\ Len(dvma_addr[q]) \in Nat
        BY <3>3, LenProperties DEF SlotsGiven
      <4> QED
        BY <3>2, <4>1
    <3>5. q \in Mapped'
      BY <2>2, <3>4 DEF Mapped, Nobody
    <3>6. s \in Range(dvma_addr'[q])
      BY <2>2, <3>2, <3>3 DEF Range
    <3> QED
      BY <3>5, <3>6 DEF Owned
  <2> QED
    BY <2>2, <2>3, <2>4
<1>2. IommuInv /\ [IommuNext]_iommuVars =>
        [\A r \in Reqs : doing = <<"flushed", r>> /\ doing' = Nobody =>
           \A s \in Slots \ Owned' : memory'[s] = Invalid /\ tlb'[s] = Invalid]_iommuVars
  BY <1>1
<1> QED
  BY <1>2, IommuInitInv, IommuStep, PTL DEF IommuSpec, ReachEndsWithNextGet

-----------------------------------------------------------------------------
(* The bargraph: who may have the device open, and what has the page.      *)
BgInv ==
    /\ reg \in {"null", "mapped", "unmapped"} /\ registered \in {0, 1}
    /\ bg_usecount \in {0, 1} /\ running \in {0, 1}
    /\ registered = 1 <=> reg = "mapped"
    /\ bg_usecount = 1 => registered = 1
    /\ UserUndisturbed

(* Where a timer does not run beside a system call, bg_open and            *)
(* cleanup_module leave no timer behind that writes the LEDs.              *)
THEOREM Undisturbed == ~Parallel => (Spec => []UserUndisturbed)
<1> SUFFICES ASSUME ~Parallel
             PROVE  Spec => []UserUndisturbed
  OBVIOUS
<1>1. Init => BgInv
  BY DEF Init, BgInit, BgInv, UserUndisturbed, Off
<1>2. BgInv /\ [Next]_vars => BgInv'
  <2> SUFFICES ASSUME BgInv, [Next]_vars
               PROVE  BgInv'
    OBVIOUS
  <2> USE DEF BgInv, UserUndisturbed, Off
  <2>1. CASE init_module
    BY <2>1 DEF init_module, SysCall
  <2>2. CASE cleanup_module
    BY <2>2 DEF cleanup_module, bg_stop_pattern, SysCall
  <2>3. CASE bg_open
    BY <2>3 DEF bg_open, bg_stop_pattern, SysCall
  <2>4. CASE bg_release
    BY <2>4 DEF bg_release, SysCall
  <2>5. CASE bg_ioctl
    BY <2>5 DEF bg_ioctl
  <2>6. CASE Interrupt
    BY <2>6 DEF Interrupt, Age
  <2>7. CASE BottomHalf
    BY <2>7 DEF BottomHalf, run_timer_list
  <2>8. CASE Update
    BY <2>8 DEF Update, bg_update_pattern
  <2>9. CASE UNCHANGED bgVars
    BY <2>9 DEF bgVars
  <2> QED
    BY <2>1, <2>2, <2>3, <2>4, <2>5, <2>6, <2>7, <2>8, <2>9 DEF Next, SystemCall, vars
<1>3. BgInv => UserUndisturbed
  BY DEF BgInv
<1> QED
  BY <1>1, <1>2, <1>3, PTL DEF Spec

-----------------------------------------------------------------------------
(* Times are counted modulo Wrap. *)
Same(a, b) == \E k \in Int : a = b + k * Wrap

(* What a sum modulo Wrap is the same as. *)
LEMMA PlusSame ==
    ASSUME NEW a \in Int, NEW b \in Int
    PROVE  Plus(a, b) \in 0 .. Wrap - 1 /\ Same(Plus(a, b), a + b)
<1>1. Wrap \in Nat /\ Wrap > 0
  BY TimerAssumption
<1>2. /\ (a + b) % Wrap \in 0 .. Wrap - 1 /\ (a + b) \div Wrap \in Int
      /\ a + b = ((a + b) \div Wrap) * Wrap + ((a + b) % Wrap)
  BY <1>1
<1> DEFINE q == (a + b) \div Wrap
           m == (a + b) % Wrap
<1> HIDE DEF q, m
<1>3. m = (a + b) + (0 - q) * Wrap /\ 0 - q \in Int
  BY <1>1, <1>2 DEF q, m
<1> QED
  BY <1>2, <1>3 DEF Same, Plus, m

(* Sums and differences of times that are the same are the same. *)
LEMMA SameSum ==
    ASSUME NEW a \in Int, NEW b \in Int, Same(a, b), NEW c \in Int
    PROVE  Same(a + c, b + c)
<1>1. Wrap \in Int
  BY TimerAssumption
<1> QED
  BY <1>1 DEF Same

(* The same, of what is subtracted. *)
LEMMA SameDifference ==
    ASSUME NEW a \in Int, NEW b \in Int, Same(a, b), NEW c \in Int
    PROVE  Same(c - a, c - b)
<1>1. Wrap \in Int
  BY TimerAssumption
<1>2. PICK k \in Int : a = b + k * Wrap
  BY DEF Same
<1>3. c - a = (c - b) + (0 - k) * Wrap /\ 0 - k \in Int
  BY <1>1, <1>2
<1> QED
  BY <1>3 DEF Same

(* What is the same as the same is the same. *)
LEMMA SameTrans ==
    ASSUME NEW a \in Int, NEW b \in Int, NEW c \in Int, Same(a, b), Same(b, c)
    PROVE  Same(a, c)
<1>1. Wrap \in Int
  BY TimerAssumption
<1>2. PICK k \in Int : a = b + k * Wrap
  BY DEF Same
<1>3. PICK j \in Int : b = c + j * Wrap
  BY DEF Same
<1>4. a = c + (k + j) * Wrap /\ k + j \in Int
  BY <1>1, <1>2, <1>3
<1> QED
  BY <1>4 DEF Same

(* Of the numbers that are the same, the remainder is the least. *)
LEMMA LeastSame ==
    ASSUME NEW a \in 0 .. Wrap - 1, NEW b \in Nat, Same(a, b)
    PROVE  a <= b
<1>1. Wrap \in Nat /\ Wrap > 0
  BY TimerAssumption
<1>2. PICK k \in Int : a = b + k * Wrap
  BY DEF Same
<1>3. CASE k <= 0
  <2>1. k * Wrap <= 0
    BY <1>1, <1>3
  <2> QED
    BY <1>1, <1>2, <2>1
<1>4. CASE k >= 1
  <2>1. k * Wrap >= Wrap
    BY <1>1, <1>4
  <2> QED
    BY <1>1, <1>2, <2>1
<1> QED
  BY <1>3, <1>4

(* What xtime will be at the next pulse of the timer, less what is left    *)
(* until then: the ticks that are counted and the pulse that is latched    *)
(* are on their way to xtime.                                              *)
Ticks(n) == n * Tick
Due == xtime + Ticks(lost_ticks) + Ticks(latched) + phase

(* How ticks add up. *)
LEMMA TicksAdd ==
    /\ Ticks(0) = 0 /\ Ticks(1) = Tick
    /\ \A n \in Nat : Ticks(n) \in Int /\ Ticks(n + 1) = Ticks(n) + Tick
<1>1. Tick \in Nat
  BY TimerAssumption
<1> QED
  BY <1>1 DEF Ticks

TimeType ==
    /\ clock \in 0 .. Wrap - 1 /\ wall \in Int
    /\ xtime \in Int /\ xtime_lasttick \in Int
    /\ phase \in 0 .. Tick - 1 /\ latched \in {0, 1} /\ lost_ticks \in Nat /\ missed \in Nat
    /\ latched = 1 => phase <= MaxDelay
    /\ stale \in {0, 1} /\ elan_lasttick \in Int

(* Due is ahead of the time by what was due when the time was set, however *)
(* long ago that is.                                                       *)
NoDrift == \E e \in 0 .. Tick + MaxDelay : Same(Due - wall, e)

(* So is what was recorded at a tick with the ticks that were still to be  *)
(* added, less the lateness of the interrupt.                              *)
Recorded == xtime_lasttick + Ticks(missed)
RecordedFits ==
    stale = 0 =>
        /\ elan_lasttick # NoTick
        /\ \E f \in -MaxDelay .. Tick + MaxDelay :
                Same(Recorded + clock - elan_lasttick - wall, f)

TimeInv == TimeType /\ NoDrift /\ RecordedFits

(* The clock goes on and nobody notices. *)
LEMMA ElapseStep ==
    ASSUME TimeInv, Elapse
    PROVE  TimeInv'
<1> USE DEF TimeInv
<1>1. Tick \in Nat /\ Tick > 0 /\ MaxDelay \in 0 .. Tick - 1 /\ Wrap \in Nat /\ Wrap > 0
  BY TimerAssumption
<1>2. /\ clock \in Int /\ wall \in Int /\ xtime \in Int /\ xtime_lasttick \in Int
      /\ elan_lasttick \in Int /\ Recorded \in Int
  BY <1>1, TicksAdd DEF TimeType, Recorded
<1>3. /\ clock' \in 0 .. Wrap - 1 /\ Same(clock', clock + 1)
      /\ wall' \in 0 .. Wrap - 1 /\ Same(wall', wall + 1)
  BY <1>2, PlusSame DEF Elapse
<1>4. /\ UNCHANGED <<xtime, lost_ticks, xtime_lasttick, elan_lasttick, missed, stale>>
      /\ Recorded' = Recorded
  BY DEF Elapse, Recorded, Ticks
<1>5. /\ phase' \in 0 .. Tick - 1 /\ latched' \in {0, 1}
      /\ latched' = 1 => phase' <= MaxDelay
      /\ Ticks(latched') + phase' = Ticks(latched) + phase + 1
  <2>1. phase \in 0 .. Tick - 1 /\ latched \in {0, 1} /\ (latched = 1 => phase < MaxDelay)
    BY DEF TimeType, Elapse
  <2>2. CASE phase = Tick - 1
    <3>1. phase' = 0
      <4>1. phase + 1 = Tick /\ Tick % Tick = 0
        BY <1>1, <2>2
      <4> QED
        BY <4>1 DEF Elapse
    <3>2. latched = 0 /\ latched' = 1
      BY <1>1, <2>1, <2>2, <3>1 DEF Elapse
    <3> QED
      BY <1>1, <2>2, <3>1, <3>2, TicksAdd
  <2>3. CASE phase # Tick - 1
    <3>1. phase + 1 \in 1 .. Tick - 1
      BY <1>1, <2>1, <2>3
    <3>2. phase' = phase + 1
      <4>1. \A x \in 1 .. Tick - 1 : x % Tick = x
        BY <1>1
      <4> QED
        BY <3>1, <4>1 DEF Elapse
    <3>3. latched' = latched
      BY <3>1, <3>2 DEF Elapse
    <3> QED
      BY <1>1, <2>1, <3>1, <3>2, <3>3, TicksAdd
  <2> QED
    BY <2>2, <2>3
<1>6. TimeType'
  BY <1>1, <1>3, <1>4, <1>5 DEF TimeType
<1>7. Due \in Int /\ Due' = Due + 1
  <2>1. /\ Ticks(lost_ticks) \in Int /\ Ticks(latched) \in Int /\ Ticks(latched') \in Int
        /\ phase \in Int /\ phase' \in Int
    BY <1>1, <1>5, TicksAdd DEF TimeType
  <2>2. Due' = xtime + Ticks(lost_ticks) + Ticks(latched') + phase'
    BY <1>4 DEF Due, Ticks
  <2> QED
    BY <1>2, <1>5, <2>1, <2>2 DEF Due
<1>8. NoDrift'
  <2>1. PICK e \in 0 .. Tick + MaxDelay : Same(Due - wall, e)
    BY DEF NoDrift
  <2>2. Same(Due' - wall', Due' - (wall + 1))
    <3>1. Due' \in Int /\ wall' \in Int /\ wall + 1 \in Int
      BY <1>1, <1>2, <1>3, <1>7
    <3> QED
      BY <1>3, <3>1, SameDifference
  <2>3. Due' - (wall + 1) = Due - wall
    BY <1>2, <1>7
  <2>4. Same(Due' - wall', e)
    <3>1. /\ Due' - wall' \in Int /\ Due - wall \in Int /\ e \in Int
      BY <1>1, <1>2, <1>3, <1>7
    <3> QED
      BY <2>1, <2>2, <2>3, <3>1, SameTrans
  <2> QED
    BY <2>4 DEF NoDrift
<1>9. RecordedFits'
  <2> SUFFICES ASSUME stale = 0
               PROVE  /\ elan_lasttick # NoTick
                      /\ \E f \in -MaxDelay .. Tick + MaxDelay :
                            Same(Recorded + clock' - elan_lasttick - wall', f)
    BY <1>4 DEF RecordedFits
  <2>1. PICK f \in -MaxDelay .. Tick + MaxDelay :
            Same(Recorded + clock - elan_lasttick - wall, f)
    BY DEF RecordedFits
  <2> DEFINE was == Recorded - elan_lasttick
  <2>2. was \in Int /\ f \in Int /\ clock' \in Int /\ wall' \in Int
    BY <1>1, <1>2, <1>3
  <2> HIDE DEF was
  <2>3. Same(clock' + (was - wall'), clock + 1 + (was - wall'))
    BY <1>2, <1>3, <2>2, SameSum
  <2>4. Same((clock + 1 + was) - wall', (clock + 1 + was) - (wall + 1))
    <3>1. clock + 1 + was \in Int /\ wall + 1 \in Int
      BY <1>2, <2>2
    <3> QED
      BY <1>3, <2>2, <3>1, SameDifference
  <2>5. Same(clock + was - wall, f)
    <3>1. clock + was - wall = Recorded + clock - elan_lasttick - wall
      BY <1>2 DEF was
    <3> QED
      BY <2>1, <3>1
  <2>6. Same(clock' + (was - wall'), f)
    <3>1. /\ clock + 1 + (was - wall') = (clock + 1 + was) - wall'
          /\ (clock + 1 + was) - (wall + 1) = clock + was - wall
      BY <1>2, <2>2
    <3>2. /\ clock' + (was - wall') \in Int /\ clock + 1 + (was - wall') \in Int
          /\ clock + was - wall \in Int
      BY <1>2, <2>2
    <3> QED
      BY <2>2, <2>3, <2>4, <2>5, <3>1, <3>2, SameTrans
  <2>7. Recorded + clock' - elan_lasttick - wall' = clock' + (was - wall')
    BY <1>2, <2>2 DEF was
  <2> QED
    BY <2>6, <2>7 DEF RecordedFits
<1> QED
  BY <1>6, <1>8, <1>9

(* dino1_timer_intr: the latch becomes a tick that is counted, and what is *)
(* recorded is Due, less the time the interrupt had to wait.               *)
LEMMA InterruptStep ==
    ASSUME TimeInv, timer_interrupt
    PROVE  TimeInv'
<1> USE DEF TimeInv
<1>1. Tick \in Nat /\ Tick > 0 /\ MaxDelay \in 0 .. Tick - 1 /\ Wrap \in Nat /\ Wrap > 0
  BY TimerAssumption
<1>2. /\ latched = 1 /\ latched' = 0 /\ stale' = 0
      /\ lost_ticks' = lost_ticks + 1 /\ missed' = lost_ticks
      /\ xtime_lasttick' = Plus(xtime, Tick) /\ elan_lasttick' = clock
      /\ UNCHANGED <<clock, phase, xtime, wall>>
  BY DEF timer_interrupt, xtime_next, TimeType
<1>3. clock \in 0 .. Wrap - 1 /\ xtime \in Int /\ wall \in Int /\ phase \in 0 .. MaxDelay
      /\ lost_ticks \in Nat /\ Ticks(lost_ticks) \in Int
  BY <1>1, <1>2, TicksAdd DEF TimeType
<1>4. xtime_lasttick' \in Int /\ Same(xtime_lasttick', xtime + Tick)
  <2>1. Plus(xtime, Tick) \in 0 .. Wrap - 1 /\ Same(Plus(xtime, Tick), xtime + Tick)
    <3>1. Tick \in Int
      BY <1>1
    <3> QED
      BY <1>3, <3>1, PlusSame
  <2> QED
    BY <1>1, <1>2, <2>1
<1>5. TimeType'
  BY <1>1, <1>2, <1>3, <1>4 DEF TimeType
<1>6. Due = xtime + Ticks(lost_ticks) + Tick + phase /\ Due' = Due
  <2>1. Due = xtime + Ticks(lost_ticks) + Tick + phase
    BY <1>2, TicksAdd DEF Due
  <2>2. Due' = xtime + Ticks(lost_ticks + 1) + Ticks(0) + phase
    BY <1>2 DEF Due, Ticks
  <2> QED
    BY <1>1, <1>3, <2>1, <2>2, TicksAdd
<1>7. NoDrift'
  BY <1>2, <1>6 DEF NoDrift
<1>8. RecordedFits'
  <2>1. PICK e \in 0 .. Tick + MaxDelay : Same(Due - wall, e)
    BY DEF NoDrift
  <2>2. e \in Int /\ e - phase \in -MaxDelay .. Tick + MaxDelay
    BY <1>1, <1>3
  <2>3. Same((Due - wall) + (0 - phase), e + (0 - phase))
    <3>1. Due - wall \in Int /\ 0 - phase \in Int
      BY <1>1, <1>3, <1>6
    <3> QED
      BY <2>1, <2>2, <3>1, SameSum
  <2> DEFINE rest == Ticks(lost_ticks) - wall
  <2>4. Same(xtime_lasttick' + rest, (xtime + Tick) + rest)
    <3>1. xtime + Tick \in Int /\ rest \in Int
      BY <1>1, <1>3
    <3> QED
      BY <1>4, <3>1, SameSum
  <2>9. Recorded' = xtime_lasttick' + Ticks(lost_ticks)
    BY <1>2 DEF Recorded, Ticks
  <2>5. /\ (xtime + Tick) + rest = (Due - wall) + (0 - phase)
        /\ e + (0 - phase) = e - phase
        /\ xtime_lasttick' + rest = Recorded' + clock' - elan_lasttick' - wall'
    BY <1>1, <1>2, <1>3, <1>4, <1>6, <2>2, <2>9
  <2>6. /\ xtime_lasttick' + rest \in Int /\ (xtime + Tick) + rest \in Int
        /\ e - phase \in Int
    BY <1>1, <1>3, <1>4, <2>2
  <2> HIDE DEF rest
  <2>7. Same(Recorded' + clock' - elan_lasttick' - wall', e - phase)
    BY <2>3, <2>4, <2>5, <2>6, SameTrans
  <2>8. elan_lasttick' # NoTick
    BY <1>1, <1>2, <1>3 DEF NoTick
  <2> QED
    BY <2>2, <2>7, <2>8 DEF RecordedFits
<1> QED
  BY <1>5, <1>7, <1>8

(* The bottom half moves the tick to xtime. *)
LEMMA BottomHalfStep ==
    ASSUME TimeInv, timer_bh
    PROVE  TimeInv'
<1> USE DEF TimeInv
<1>1. Tick \in Nat /\ Tick > 0 /\ MaxDelay \in 0 .. Tick - 1 /\ Wrap \in Nat /\ Wrap > 0
  BY TimerAssumption
<1>2. /\ lost_ticks' = 0
      /\ UNCHANGED <<clock, phase, latched, xtime_lasttick, elan_lasttick, wall, missed, stale>>
  BY DEF timer_bh, TimeType
<1>3. /\ xtime \in Int /\ wall \in Int /\ Ticks(latched) \in Int /\ phase \in Int
      /\ Ticks(lost_ticks) \in Int
  BY <1>1, TicksAdd DEF TimeType
<1> DEFINE added == Ticks(lost_ticks)
<1>4. xtime' \in Int /\ Same(xtime', xtime + added)
  <2>1. Plus(xtime, added) \in 0 .. Wrap - 1 /\ Same(Plus(xtime, added), xtime + added)
    BY <1>3, PlusSame
  <2>2. xtime' = Plus(xtime, added)
    BY DEF timer_bh, Ticks
  <2> QED
    BY <1>1, <2>1, <2>2
<1>5. TimeType'
  BY <1>2, <1>4 DEF TimeType
<1>6. NoDrift'
  <2>1. PICK e \in 0 .. Tick + MaxDelay : Same(Due - wall, e)
    BY DEF NoDrift
  <2> DEFINE rest == Ticks(latched) + phase - wall
  <2>2. rest \in Int /\ e \in Int /\ xtime + added \in Int
    BY <1>1, <1>3
  <2>3. Due' - wall' = xtime' + rest /\ Due - wall = (xtime + added) + rest
    <3>1. Due' = xtime' + Ticks(0) + Ticks(latched) + phase
      BY <1>2 DEF Due, Ticks
    <3> QED
      BY <1>2, <1>3, <1>4, <3>1, TicksAdd DEF Due
  <2> HIDE DEF rest
  <2>4. Same(xtime' + rest, (xtime + added) + rest)
    BY <1>4, <2>2, SameSum
  <2>5. xtime' + rest \in Int /\ (xtime + added) + rest \in Int
    BY <1>4, <2>2
  <2>6. Same(xtime' + rest, e)
    BY <2>1, <2>2, <2>3, <2>4, <2>5, SameTrans
  <2> QED
    BY <2>3, <2>6 DEF NoDrift
<1>7. RecordedFits'
  BY <1>2 DEF RecordedFits, Recorded, Ticks
<1> QED
  BY <1>5, <1>6, <1>7

(* Setting the time: what is ahead is the tick under way. *)
LEMMA SetTimeStep ==
    ASSUME TimeInv, NEW jump \in Jumps, settimeofday(jump)
    PROVE  TimeInv'
<1> USE DEF TimeInv
<1>1. Tick \in Nat /\ Tick > 0 /\ MaxDelay \in 0 .. Tick - 1 /\ Wrap \in Nat /\ Wrap > 0
      /\ jump \in Nat
  BY TimerAssumption
<1>2. /\ lost_ticks = 0 /\ stale' = 1 /\ xtime' = wall' /\ wall' = Plus(wall, jump)
      /\ UNCHANGED <<clock, phase, latched, lost_ticks, xtime_lasttick, elan_lasttick, missed>>
  BY DEF settimeofday
<1>3. wall' \in Int
  <2>1. wall \in Int /\ jump \in Int
    BY <1>1 DEF TimeType
  <2> QED
    BY <1>1, <1>2, <2>1, PlusSame
<1>4. TimeType'
  BY <1>2, <1>3 DEF TimeType
<1>5. NoDrift'
  <2> DEFINE e == Ticks(latched) + phase
  <2>1. e \in 0 .. Tick + MaxDelay
    BY <1>1, TicksAdd DEF TimeType
  <2>2. Due' - wall' = e
    <3>1. Due' = wall' + Ticks(0) + Ticks(latched) + phase
      BY <1>2 DEF Due, Ticks
    <3>2. Ticks(latched) \in Int /\ phase \in Int
      BY TicksAdd DEF TimeType
    <3> QED
      BY <1>3, <3>1, <3>2, TicksAdd
  <2>3. Same(e, e)
    <3>1. e \in Int
      BY <1>1, <2>1
    <3>2. e = e + 0 * Wrap
      BY <1>1, <3>1
    <3> QED
      BY <3>2 DEF Same
  <2> QED
    BY <2>1, <2>2, <2>3 DEF NoDrift
<1>6. RecordedFits'
  BY <1>2 DEF RecordedFits
<1> QED
  BY <1>4, <1>5, <1>6

(* What dino1_gettimeofday returns is ahead of the time by no more than an *)
(* interrupt may be late and the tick that was under way when the time was *)
(* set, and behind it by no more than an interrupt may be late and the     *)
(* ticks that waited for the bottom half when the last was recorded: for   *)
(* every HZ, however many ticks wait and however long the machine runs.    *)
THEOREM NoTimeDrift == Spec => []TimeAccurate
<1>0. Tick \in Nat /\ Tick > 0 /\ MaxDelay \in 0 .. Tick - 1 /\ Wrap \in Nat /\ Wrap > 0
  BY TimerAssumption
<1>1. Init => TimeInv
  <2> SUFFICES ASSUME Init
               PROVE  TimeInv
    OBVIOUS
  <2>1. TimeType /\ RecordedFits
    BY <1>0 DEF Init, TimerInit, TimeType, RecordedFits, NoTick
  <2>2. Due - wall = 0
    BY TicksAdd DEF Init, TimerInit, Due
  <2>3. Same(0, 0)
    <3>1. 0 = 0 + 0 * Wrap
      BY <1>0
    <3> QED
      BY <3>1 DEF Same
  <2>4. 0 \in 0 .. Tick + MaxDelay
    BY <1>0
  <2> QED
    BY <2>1, <2>2, <2>3, <2>4 DEF TimeInv, NoDrift
<1>2. TimeInv /\ [Next]_vars => TimeInv'
  <2> SUFFICES ASSUME TimeInv, [Next]_vars
               PROVE  TimeInv'
    OBVIOUS
  <2>1. CASE UNCHANGED timeVars
    BY <2>1 DEF TimeInv, TimeType, NoDrift, RecordedFits, Recorded, Due, Ticks, timeVars
  <2>2. CASE Elapse
    BY <2>2, ElapseStep
  <2>3. CASE timer_interrupt
    BY <2>3, InterruptStep
  <2>4. CASE timer_bh
    BY <2>4, BottomHalfStep
  <2>5. CASE \E jump \in Jumps : settimeofday(jump)
    BY <2>5, SetTimeStep
  <2> QED
    BY <2>1, <2>2, <2>3, <2>4, <2>5
       DEF Next, Interrupt, BottomHalf, Update, SystemCall, vars
<1>3. TimeInv => TimeAccurate
  <2> SUFFICES ASSUME TimeInv, stale = 0
               PROVE  Plus(dino1_gettimeofday + Ticks(missed) - wall, MaxDelay) <= Tick + 2 * MaxDelay
    BY DEF TimeAccurate, Ticks
  <2> DEFINE read == xtime_lasttick + (clock - elan_lasttick)
             shown == Plus(xtime_lasttick, clock - elan_lasttick)
             more == Ticks(missed)
  <2>1. /\ xtime_lasttick \in Int /\ clock \in Int /\ elan_lasttick \in Int /\ wall \in Int
        /\ MaxDelay \in Int /\ more \in Int
    BY <1>0, TicksAdd DEF TimeInv, TimeType
  <2>2. PICK f \in -MaxDelay .. Tick + MaxDelay :
            Same(Recorded + clock - elan_lasttick - wall, f)
    BY DEF TimeInv, RecordedFits
  <2>3. read \in Int /\ Same(read + more - wall, f) /\ f \in Int
    <3>1. read + more - wall = Recorded + clock - elan_lasttick - wall
      BY <2>1 DEF Recorded
    <3> QED
      BY <1>0, <2>1, <2>2, <3>1
  <2>4. dino1_gettimeofday = shown
    BY DEF TimeInv, RecordedFits, dino1_gettimeofday
  <2>5. shown \in Int /\ Same(shown, read)
    <3>1. clock - elan_lasttick \in Int
      BY <2>1
    <3>2. shown \in 0 .. Wrap - 1 /\ Same(shown, read)
      BY <2>1, <3>1, PlusSame
    <3> QED
      BY <1>0, <3>2
  <2> HIDE DEF read, shown, more
  <2>6. Same(shown + (more + MaxDelay - wall), read + (more + MaxDelay - wall))
    <3>1. more + MaxDelay - wall \in Int
      BY <2>1
    <3> QED
      BY <2>3, <2>5, <3>1, SameSum
  <2>7. Same((read + more - wall) + MaxDelay, f + MaxDelay)
    <3>1. read + more - wall \in Int
      BY <2>1, <2>3
    <3> QED
      BY <2>1, <2>3, <3>1, SameSum
  <2> DEFINE late == shown + more - wall + MaxDelay
             rem == Plus(shown + more - wall, MaxDelay)
  <2>8. /\ late \in Int /\ f + MaxDelay \in Int /\ (read + more - wall) + MaxDelay \in Int
        /\ shown + (more + MaxDelay - wall) = late
        /\ read + (more + MaxDelay - wall) = (read + more - wall) + MaxDelay
    BY <2>1, <2>3, <2>5
  <2>9. rem \in 0 .. Wrap - 1 /\ Same(rem, late)
    <3>1. shown + more - wall \in Int
      BY <2>1, <2>5
    <3> QED
      BY <2>1, <3>1, PlusSame
  <2> HIDE DEF late, rem
  <2>10. Same(late, f + MaxDelay)
    BY <2>6, <2>7, <2>8, SameTrans
  <2>11. Same(rem, f + MaxDelay)
    <3>1. rem \in Int
      BY <1>0, <2>9
    <3> QED
      BY <2>8, <2>9, <2>10, <3>1, SameTrans
  <2>12. f + MaxDelay \in Nat /\ f + MaxDelay <= Tick + 2 * MaxDelay
    BY <1>0
  <2>13. rem <= f + MaxDelay
    BY <2>9, <2>11, <2>12, LeastSame
  <2>14. rem <= Tick + 2 * MaxDelay
    BY <1>0, <2>8, <2>9, <2>12, <2>13
  <2> QED
    BY <2>4, <2>14 DEF rem, more
<1> QED
  BY <1>1, <1>2, <1>3, PTL DEF Spec
=============================================================================
