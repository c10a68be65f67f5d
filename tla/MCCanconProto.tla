--------------------------- MODULE MCCanconProto ---------------------------
(***************************************************************************)
(* CanconProto for TLC.                                                    *)
(***************************************************************************)
EXTENDS CanconProto, TLC

Symmetry == Permutations(Clients)
=============================================================================
