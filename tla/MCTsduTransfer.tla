--------------------------- MODULE MCTsduTransfer ---------------------------
(***************************************************************************)
(* TsduTransfer for TLC.                                                   *)
(***************************************************************************)
EXTENDS TsduTransfer
=============================================================================
