------------------------------- MODULE MCPool -------------------------------
(***************************************************************************)
(* Instances of Pool for TLC.  Clients are interchangeable, and so are the *)
(* sessions; the symmetry is used where no liveness is checked.            *)
(***************************************************************************)
EXTENDS Pool, TLC

Symmetry == Permutations(Clients) \cup Permutations(Sessions)
=============================================================================
