----------------------------- MODULE MCCanFile -----------------------------
(***************************************************************************)
(* An instance of CanFile for TLC: three files compete for two slots of    *)
(* openfd[] and for two console objects.                                   *)
(***************************************************************************)
EXTENDS CanFile, TLC

Symmetry == Permutations(Files)

=============================================================================
