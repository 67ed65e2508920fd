-------------------------------- MODULE Calls -------------------------------
(***************************************************************************)
(* What a connection promises its callers (sendRecv, sendRecvSettled and   *)
(* sendRecvTransaction of internal/client/conn.go), without MIDs, channels *)
(* or goroutines: a call ends with the server's answer to that very call,  *)
(* with an error for which there is a cause, or with the certainty that    *)
(* the server was never asked.                                             *)
(***************************************************************************)
CONSTANT Requests

VARIABLES
    call,     \* how far each call is
    answer,   \* how much of its answer the server has sent and the client read
    ended,    \* the calls whose context has ended
    up        \* the connection is usable

vars == <<call, answer, ended, up>>

Init ==
    /\ call = [r \in Requests |-> "idle"]
    /\ answer = [r \in Requests |-> "none"]
    /\ ended = {}
    /\ up = TRUE

Begin(r) ==
    /\ call[r] = "idle"
    /\ up
    /\ call' = [call EXCEPT ![r] = "calling"]
    /\ UNCHANGED <<answer, ended, up>>

\* There is no connection, or this call finds it cannot go on.
Refuse(r) ==
    /\ call[r] = "idle"
    /\ call' = [call EXCEPT ![r] = "error"]
    /\ up' = FALSE
    /\ UNCHANGED <<answer, ended>>

\* The server answers a call that reached it, in one message or in several, in
\* time or after the caller has gone.
Answer(r) ==
    /\ call[r] \notin {"idle", "unsent"}
    /\ answer[r] # "whole"
    /\ \E a \in {"part", "whole"} : answer' = [answer EXCEPT ![r] = a]
    /\ UNCHANGED <<call, ended, up>>

EndContext(r) ==
    /\ call[r] = "calling"
    /\ ended' = ended \cup {r}
    /\ UNCHANGED <<call, answer, up>>

Disconnect == up /\ up' = FALSE /\ UNCHANGED <<call, answer, ended>>

ReturnAnswer(r) ==
    /\ call[r] = "calling"
    /\ answer[r] = "whole"
    /\ call' = [call EXCEPT ![r] = "answered"]
    /\ UNCHANGED <<answer, ended, up>>

\* The context has ended, the connection is gone, or what the server sent for
\* this call cannot be used.
ReturnError(r) ==
    /\ call[r] = "calling"
    /\ r \in ended \/ ~up \/ answer[r] # "none"
    /\ call' = [call EXCEPT ![r] = "error"]
    /\ UNCHANGED <<answer, ended, up>>

\* The request did not reach the server and never will; a failed write takes
\* the connection down with it.
ReturnUnsent(r) ==
    /\ call[r] = "calling"
    /\ answer[r] = "none"
    /\ call' = [call EXCEPT ![r] = "unsent"]
    /\ up' \in {up, FALSE}
    /\ UNCHANGED <<answer, ended>>

Next ==
    \/ \E r \in Requests :
          \/ Begin(r) \/ Refuse(r) \/ Answer(r) \/ EndContext(r)
          \/ ReturnAnswer(r) \/ ReturnError(r) \/ ReturnUnsent(r)
    \/ Disconnect

Spec == Init /\ [][Next]_vars
=============================================================================
