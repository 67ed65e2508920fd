------------------------------ MODULE Transfer ------------------------------
(***************************************************************************)
(* One pipelined transfer of a File, a Read or a Write: the choice         *)
(* File.Read and File.Write make for data of more than one chunk.          *)
(***************************************************************************)
EXTENDS Pipeline

VARIABLES
    kind,      \* which of the two it is
    draining   \* of a Write

vars == <<pipeVars, kind, draining>>

R == INSTANCE PipelinedRead
W == INSTANCE PipelinedWrite

Init == kind \in {"read", "write"} /\ W!Init

Read  == kind = "read" /\ R!readPipelined /\ UNCHANGED <<kind, draining>>
Write == kind = "write" /\ W!writePipelined /\ UNCHANGED kind

Next ==
    \/ Read
    \/ Write
    \/ Environment /\ UNCHANGED <<kind, draining>>
    \/ pc = "returned" /\ UNCHANGED vars

\* The goroutine runs and its timers fire.  Nothing is assumed of the server or
\* the network, not even that the peer reads what is written to it: a write has
\* no deadline.
Proceeds == pc # "writing" /\ (Read \/ Write)

Spec == Init /\ [][Next]_vars /\ WF_vars(Proceeds)

-----------------------------------------------------------------------------
\* Of a Read: its bytes are those at the start of the buffer without a hole,
\* and io.EOF comes alone (readPipelined).
ReadHasNoHole == kind = "read" => R!ReadHasNoHole

\* Of a Write: its count is what the file holds, and a short count has an
\* error (writePipelined).
TruthfulCount == kind = "write" => W!TruthfulCount
=============================================================================
