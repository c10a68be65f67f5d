------------------------------ MODULE MCBoard -------------------------------
(***************************************************************************)
(* Timer, bargraph and IOMMU.  The IOMMU shares nothing with the other     *)
(* two, so in a behaviour either these move or it does; which of the two   *)
(* is chosen at the start.                                                 *)
(***************************************************************************)
EXTENDS Board, Iommu

VARIABLE part

MCJumps == {2}
MCIoSlots == {1, 2}
MCDmaSlots == {8}

BoardInit ==
    /\ Init /\ IommuInit /\ part \in {"clock", "iommu"}
    /\ part = "clock" => memory = page_table
BoardNext ==
    /\ UNCHANGED part
    /\ \/ part = "clock" /\ Next /\ UNCHANGED iommuVars
       \/ part = "iommu" /\ IommuNext /\ UNCHANGED vars
BoardSafe == BoardInit /\ [][BoardNext]_<<vars, iommuVars, part>>
BoardSpec == BoardSafe /\ (part = "clock" => Fairness)
=============================================================================
