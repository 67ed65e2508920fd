------------------------------- MODULE MCConn -------------------------------
(***************************************************************************)
(* Instances of Conn for TLC: plain, settled and transaction calls over so *)
(* few MIDs that they are reused and run out.                              *)
(***************************************************************************)
EXTENDS ConnInv, ConnCalls

=============================================================================
