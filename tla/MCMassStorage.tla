--------------------------- MODULE MCMassStorage ----------------------------
(* MassStorage for TLC. *)
EXTENDS MassStorage
=============================================================================
