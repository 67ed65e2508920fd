----------------------------- MODULE MCTransfer -----------------------------
(***************************************************************************)
(* The instance of Transfer for TLC: four chunks, two of them in flight,   *)
(* the last one shorter than the rest.                                     *)
(***************************************************************************)
EXTENDS Transfer

=============================================================================
