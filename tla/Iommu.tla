------------------------------- MODULE Iommu --------------------------------
(***************************************************************************)
(* The L64852 MBus-to-SBus controller (kernel/arch/sparc/meiko/iommu.c):   *)
(* devices reach memory through a page table that the processor writes.    *)
(* What it writes is in its cache until that is flushed or happens to be   *)
(* written back; the controller reads memory, and keeps what it read in a  *)
(* TLB until that is invalidated.  So there are three copies of an entry.  *)
(*                                                                         *)
(* The disk driver maps the pages of a request, one or a list, and         *)
(* releases them when the device is done.  The calls do not overlap, but   *)
(* map_dma_area may sleep for a page in its loop.                          *)
(***************************************************************************)
EXTENDS Integers, Sequences, SequencesExt

CONSTANTS
    IoSlots,        \* entries from IOMMU_VADDR to IOMMU_END, in order
    DmaSlots,       \* entries of the area that map_dma_area maps
    Reqs,           \* requests of drivers
    Pages,          \* pages of memory that are mapped for devices
    Invalid,        \* an entry without IOPTE40_VALID
    MaxSg           \* length of the longest list

ASSUME IommuAssumption ==
    /\ IoSlots \subseteq Nat /\ DmaSlots \subseteq Nat /\ IoSlots \cap DmaSlots = {}
    /\ Invalid \notin Pages /\ MaxSg \in Nat \ {0}

Slots == IoSlots \cup DmaSlots

VARIABLES
    page_table,         \* as the processor sees it
    memory,             \* the same, as the controller would read it
    tlb,                \* what the controller has read: Invalid if nothing
    addr, dvma_addr,    \* of a request: its pages, and the slots they got
    doing,              \* where the call of the driver is, and for whom
    dma,                \* where map_dma_area is
    full                \* 1: the ASSERT in get_area has stopped the kernel

iommuVars == <<page_table, memory, tlb, addr, dvma_addr, doing, dma, full>>

Nobody == <<"none", "none">>

(* iommu40_init clears the page table, but in the cache only: it flushes   *)
(* before, and memory holds what it did.  The TLB is invalidated.          *)
IommuInit ==
    /\ page_table = [s \in Slots |-> Invalid]
    /\ memory \in [Slots -> Pages \cup {Invalid}] /\ tlb = page_table
    /\ addr = [r \in Reqs |-> <<>>] /\ dvma_addr = [r \in Reqs |-> <<>>]
    /\ doing = Nobody /\ dma = "before" /\ full = 0

(* Requests whose pages the driver has been given addresses for. *)
Mapped ==
    {r \in Reqs : addr[r] # <<>> /\ doing \notin {<<"area", r>>, <<"flushed", r>>}}

-----------------------------------------------------------------------------
(* get_scsi_one, get_scsi_sgl: a slot for every page, from the last page   *)
(* to the first; then the cache is flushed and the TLB invalidated.        *)
get_scsi(r, pages) ==
    /\ full = 0 /\ doing = Nobody /\ addr[r] = <<>>
    /\ addr' = [addr EXCEPT ![r] = pages]
    /\ doing' = <<"area", r>>
    /\ UNCHANGED <<page_table, memory, tlb, dvma_addr, dma, full>>

Free(s) == page_table[s] = Invalid

get_area(r) ==
    /\ full = 0 /\ doing = <<"area", r>> /\ Len(dvma_addr[r]) < Len(addr[r])
    /\ \/ \E s \in IoSlots :
            /\ Free(s) /\ \A q \in IoSlots : q < s => ~Free(q)
            /\ page_table' = [page_table EXCEPT ![s] =
                                 addr[r][Len(addr[r]) - Len(dvma_addr[r])]]
            /\ dvma_addr' = [dvma_addr EXCEPT ![r] = <<s>> \o @]
            /\ UNCHANGED full
       \/ /\ \A s \in IoSlots : ~Free(s)
          /\ full' = 1
          /\ UNCHANGED <<page_table, dvma_addr>>
    /\ UNCHANGED <<memory, tlb, addr, doing, dma>>

flush_cache_all_Not == UNCHANGED memory     \* mutant: the entries stay in the cache
flush_cache_all == memory' = page_table

get_scsi_flush(r) ==
    /\ full = 0 /\ doing = <<"area", r>> /\ Len(dvma_addr[r]) = Len(addr[r])
    /\ flush_cache_all
    /\ doing' = <<"flushed", r>>
    /\ UNCHANGED <<page_table, tlb, addr, dvma_addr, dma, full>>

iommu40_invalidate_Not == UNCHANGED tlb     \* mutant: old translations survive
iommu40_invalidate == tlb' = [s \in Slots |-> Invalid]

get_scsi_done(r) ==
    /\ full = 0 /\ doing = <<"flushed", r>>
    /\ iommu40_invalidate
    /\ doing' = Nobody
    /\ UNCHANGED <<page_table, memory, addr, dvma_addr, dma, full>>

(* release_scsi_one, release_scsi_sgl: VALID is cleared, and that is all.  *)
release_scsi(r) ==
    /\ full = 0 /\ doing = Nobody /\ r \in Mapped
    /\ page_table' = [s \in Slots |->
                         IF s \in Range(dvma_addr[r]) THEN Invalid ELSE page_table[s]]
    /\ addr' = [addr EXCEPT ![r] = <<>>] /\ dvma_addr' = [dvma_addr EXCEPT ![r] = <<>>]
    /\ UNCHANGED <<memory, tlb, doing, dma, full>>

(* map_dma_area: pages that get_free_page finds, once it has slept. *)
map_dma_area ==
    /\ full = 0 /\ doing = Nobody
    /\ \/ /\ dma = "before"
          /\ \E s \in DmaSlots, p \in Pages :
                /\ page_table[s] = Invalid /\ \A q \in DmaSlots : q < s => page_table[q] # Invalid
                /\ page_table' = [page_table EXCEPT ![s] = p]
          /\ UNCHANGED <<memory, tlb, dma>>
       \/ /\ dma = "before" /\ \A s \in DmaSlots : page_table[s] # Invalid
          /\ memory' = page_table /\ iommu40_invalidate
          /\ dma' = "mapped"
          /\ UNCHANGED page_table
    /\ UNCHANGED <<addr, dvma_addr, doing, full>>

-----------------------------------------------------------------------------
(* The hardware (external): a line of the cache is written back; the       *)
(* controller reads a valid entry.                                         *)
WriteBack(s) ==
    /\ full = 0
    /\ memory[s] # page_table[s]
    /\ memory' = [memory EXCEPT ![s] = page_table[s]]
    /\ UNCHANGED <<page_table, tlb, addr, dvma_addr, doing, dma, full>>

TlbLoad(s) ==
    /\ full = 0
    /\ tlb[s] = Invalid /\ memory[s] # Invalid
    /\ tlb' = [tlb EXCEPT ![s] = memory[s]]
    /\ UNCHANGED <<page_table, memory, addr, dvma_addr, doing, dma, full>>

IommuNext ==
    \/ \E r \in Reqs :
        \/ \E n \in 1 .. MaxSg : \E pages \in [1 .. n -> Pages] : get_scsi(r, pages)
        \/ get_area(r) \/ get_scsi_flush(r) \/ get_scsi_done(r) \/ release_scsi(r)
    \/ map_dma_area
    \/ \E s \in Slots : WriteBack(s) \/ TlbLoad(s)

IommuSpec == IommuInit /\ [][IommuNext]_iommuVars

-----------------------------------------------------------------------------
(* A device that uses an address it was given reaches the page the address *)
(* stands for, whatever the cache and the TLB held from earlier users of   *)
(* the slot: no copy of the entry is another page's.                       *)
MappingTranslates ==
    /\ \A r \in Mapped : \A i \in DOMAIN addr[r] :
        LET s == dvma_addr[r][i]
        IN  memory[s] = addr[r][i] /\ tlb[s] \in {Invalid, addr[r][i]}
    /\ dma = "mapped" => \A s \in DmaSlots :
        memory[s] = page_table[s] /\ tlb[s] \in {Invalid, page_table[s]}

Owned == DmaSlots \cup UNION {Range(dvma_addr[r]) : r \in Mapped}

(* A released page stays within reach of the devices, since release does   *)
(* not flush; but only until some other request is mapped.                 *)
ReachEndsWithNextGet ==
    [][\A r \in Reqs : doing = <<"flushed", r>> /\ doing' = Nobody =>
         \A s \in Slots \ Owned' : memory'[s] = Invalid /\ tlb'[s] = Invalid]_iommuVars

(* A released page is out of reach. *)
ReleasedOutOfReach == \A s \in Slots \ Owned : doing = Nobody => tlb[s] = Invalid
=============================================================================
