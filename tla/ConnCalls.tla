----------------------------- MODULE ConnCalls ------------------------------
(***************************************************************************)
(* The connection implements Calls: the refinement mapping.                *)
(***************************************************************************)
EXTENDS Conn

\* How far the caller of r sees its call to be.
CallOf(r) ==
    IF pc[r] = "idle" THEN "idle"
    ELSE IF pc[r] = "panicked" THEN "panicked"
    ELSE IF pc[r] # "returned" THEN "calling"
    ELSE IF result[r] = "reply" THEN "answered"
    ELSE IF result[r] = "unsent" THEN "unsent"
    ELSE "error"

\* How much of the server's answer to r the receive loop has read.
AnswerOf(r) ==
    IF owed[r] = total[r] THEN "none" ELSE IF owed[r] > 0 THEN "part" ELSE "whole"

Promised == INSTANCE Calls WITH
    call   <- [r \in Requests |-> CallOf(r)],
    answer <- [r \in Requests |-> AnswerOf(r)],
    ended  <- ctxDone,
    up     <- ~IsDone

\* Every behaviour of the connection, with its reuse of MIDs, its dropped and
\* late messages and its racing teardowns, is one Calls allows: a call returns
\* a reply only if the server has answered that call completely, fails only
\* when its own context, its own reply or the connection gives it a cause, and
\* is reported unsent only if the server never sees it (sendRecv,
\* sendRecvSettled, sendRecvTransaction, beginRequest, Receive, Close).
ImplementsCalls == Promised!Spec
=============================================================================
