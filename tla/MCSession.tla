----------------------------- MODULE MCSession -----------------------------
(***************************************************************************)
(* Session with two goroutines and two tree identifiers, so that a TID is  *)
(* given out again while somebody still deals with the tree it had named.  *)
(* No symmetry is used, since liveness is checked.                         *)
(***************************************************************************)
EXTENDS Session
=============================================================================
